---- MODULE Spec2Model ----
(***************************************************************************)
(* Model of the incremental build pipeline of kosh:                        *)
(*   postServiceImpl.Process  (parse pool, card pool, global artifacts,    *)
(*   render pool, cache batch commit)                                      *)
(*   Builder.BuildChanged     (the watch-mode change classifier, under     *)
(*   buildMu, called from the watcher's callbacks)                         *)
(* together with the environment they run in: the content tree, the cache  *)
(* store, the output tree and the build's context.                         *)
(*                                                                         *)
(* Abstractions.  A post's source is a pair (front-matter, body) of small  *)
(* identifiers; hashes are injective on them.  Time is a logical clock     *)
(* with TicksPerSec ticks in a second: ModTime().After compares ticks,     *)
(* ModTime().Unix() compares whole seconds.                                *)
(***************************************************************************)
EXTENDS Integers, Sequences, FiniteSets, TLC

(* ------------------------------ bounds -------------------------------- *)

\* Number of content files the content tree may hold.
NumFiles == 2
\* Number of Process calls in one behaviour.
MaxBuilds == 2
\* Number of changes the environment makes to the content tree and to the
\* cache store.
MaxEdits == 1
\* Clock ticks in one second of ModTime().Unix().
TicksPerSec == 2
\* The context may be cancelled during the first MaxCancelBuild builds.
MaxCancelBuild == 1
\* Number of watcher events BuildChanged handles in one behaviour.
MaxEvents == 1
\* Number of goroutines the watcher delivers events on.
NumHandlers == 2

Files == 1..NumFiles

(* ------------------------- sources and hashes ------------------------- *)

\* Front-matters a post may carry; 0 is the empty mapping that the parser
\* yields for an empty source.
FMs == {1, 2, 3}
EmptyFM == 0
\* Bodies a post may carry; 0 is the empty body.
Bodies == {1, 2}
EmptyBody == 0

\* File kinds: "ok"; "unreadable" (Stat succeeds, ReadFile fails);
\* "renderfail" (the Markdown renderer returns an error on it);
\* "oversize" (Size() > MaxFileSize).
Kinds == {"ok", "unreadable", "renderfail", "oversize"}

NoFile == [none |-> TRUE]
NoHash == 0
NoLink == 0
NoVersion == ""
NoHTML == 0

Title(fm) == fm
Weight(fm) == IF fm = 2 THEN 1 ELSE 0
Tags(fm) == CASE fm = 1 -> {"x"} [] fm = 2 -> {"x", "y"} [] OTHER -> {}
Pinned(fm) == fm = 2
Draft(fm) == fm = 3

\* utils.GetBodyHash: BLAKE3 of the body bytes, hex encoded, never "".
GetBodyHash(body) == body + 1
\* utils.GetFrontmatterHash: hash of the canonical front-matter, never "".
GetFrontmatterHash(fm) == fm + 1
\* info.ModTime().Unix()
Unix(t) == t \div TicksPerSec

\* utils.GetVersionFromPath / utils.BuildURL for the file at index f.
VersionOf(f) == NoVersion
LinkOf(f) == f

\* models.PostMetadata as built on the miss path from parsed front-matter.
PostMetadata(f, fm) ==
    [Title |-> Title(fm), Link |-> LinkOf(f), Weight |-> Weight(fm),
     Version |-> VersionOf(f), Tags |-> Tags(fm), Pinned |-> Pinned(fm),
     Draft |-> Draft(fm)]

\* The zero value of models.PostMetadata.
ZeroPost ==
    [Title |-> 0, Link |-> NoLink, Weight |-> 0, Version |-> NoVersion,
     Tags |-> {}, Pinned |-> FALSE, Draft |-> FALSE]

\* Markdown render of a body, and the plain text / token count for search.
RenderHTML(body) == 10 + body
ExtractPlainText(body) == 20 + body
DocLen(fm, body) == 1 + Cardinality(Tags(fm)) + body

(* ------------------------------- state -------------------------------- *)

VARIABLES
    sourceFs,        \* content tree: file -> Nil or [fm, body, mtime, kind]
    destPages,       \* output tree: file -> Nil or [mtime, Data] (rendered page)
    destCards,       \* output tree: file -> Nil or [mtime, hash] (social card)
    cachePosts,      \* cache bucket posts: file -> Nil or PostMeta (with its HTML)
    cacheSearch,     \* cache bucket search: file -> Nil or SearchRecord
    socialHash,      \* cache bucket socialHash: file -> hash at last card generation
    includeDrafts,   \* cfg.IncludeDrafts
    cfgVersions,     \* cfg.Versions: set of [Name, IsLatest]
    now,             \* the clock
    edits,           \* changes made to the content tree and the cache store so far
    builds,          \* Process calls made so far
    lastSource,      \* the content tree as the latest Process call found it
    pc,              \* "idle", "parse", "render", "returned", "panic"
    args,            \* [shouldForce, forceSocialRebuild, outputMissing] of the call
    cancelled,       \* ctx.Done() is closed
    files,           \* the walked files, in walk order
    task,            \* parse task per file: "none", "queued", "published", "locked", "done" and worker locals
    allMetadataMap,  \* link -> Nil or PostMetadata
    indexedPosts,    \* the preallocated slice, index 0..len(files)-1
    indexedPostIdx,  \* the atomic counter
    renderQueue,     \* slot per file index: Nil (DestPath == "") or RenderContext
    staging,         \* [newPostsMeta, newSearchRecords, newDeps]
    cardTasks,       \* social card tasks submitted and not yet run
    postsByVersion,  \* version -> sorted posts, set at the join
    renderTasks,     \* render tasks submitted and not yet run
    result,          \* the PostResult returned, Nil before the return
    log,             \* calls observed during the current Process call
    event,           \* the watcher event BuildChanged handled last, Nil before the first
    calls,           \* the calls BuildChanged made for that event, in order
    handlers         \* watcher callbacks in flight: goroutine -> [st, ev, todo]

fsVars == <<sourceFs, destPages, destCards>>
cacheVars == <<cachePosts, cacheSearch, socialHash>>
envVars == <<includeDrafts, cfgVersions, now, edits, builds, lastSource>>
callVars == <<pc, args, cancelled>>
parseVars == <<files, task, allMetadataMap, indexedPosts, indexedPostIdx,
               renderQueue, staging, cardTasks>>
renderVars == <<postsByVersion, renderTasks, result>>
watchVars == <<event, calls, handlers>>
vars == <<fsVars, cacheVars, envVars, callVars, parseVars, renderVars, log, watchVars>>

Nil == NoFile
Links == 0..NumFiles
\* Version tags a post may carry: none, or a configured version's name.
VersionNames == {"v1", "v2"}
Versions == {NoVersion} \cup VersionNames

(* -------------------- global artifacts (utils, models) ---------------- *)

\* utils.SortPosts comparator: weight ascending with zero (no weight) last,
\* then title ascending.
LessPost(a, b) ==
    \/ a.Weight # 0 /\ b.Weight = 0
    \/ a.Weight # 0 /\ b.Weight # 0 /\ a.Weight < b.Weight
    \/ a.Weight = b.Weight /\ a.Title < b.Title

Orderings(S) ==
    {s \in [1..Cardinality(S) -> S] : \A i, j \in 1..Cardinality(S) : i # j => s[i] # s[j]}

\* utils.SortPosts over the posts collected from allMetadataMap.Range: the
\* collection order is unspecified and the sort is not stable, so posts with
\* equal keys may end in any order.
SortPosts(S) ==
    {s \in Orderings(S) : \A i, j \in 1..Cardinality(S) : i < j => ~LessPost(s[j], s[i])}

\* utils.FindPrevNext: the neighbours in the sorted list, none at the ends.
FindPrevNext(current, posts) ==
    LET idx == {i \in 1..Len(posts) : posts[i].Link = current.Link}
    IN  IF idx = {} THEN [prev |-> Nil, next |-> Nil]
        ELSE LET i == CHOOSE k \in idx : TRUE
             IN  [prev |-> IF i > 1 THEN posts[i - 1] ELSE Nil,
                  next |-> IF i < Len(posts) THEN posts[i + 1] ELSE Nil]

\* utils.BuildSiteTree: the tree over the sorted posts of one version.
BuildSiteTree(posts) == posts

\* models.PageData of a render task, before neighbours and site tree are set.
PageData(post, htmlContent, metaData) ==
    [Title |-> post.Title, Content |-> htmlContent, Meta |-> metaData,
     Permalink |-> post.Link, PrevPage |-> Nil, NextPage |-> Nil, SiteTree |-> <<>>]

(* ------------------------------ the cache ------------------------------ *)

\* cache.PostMeta as staged on the miss path (lines 524-531), with the HTML
\* that StoreHTMLForPost attaches to it.
NewPostMeta(f, modTime, frontmatterHash, bodyHash, post, metaData, htmlContent) ==
    [Path |-> f, ModTime |-> modTime, ContentHash |-> frontmatterHash,
     BodyHash |-> bodyHash, Title |-> post.Title, Tags |-> post.Tags,
     Link |-> post.Link, Pinned |-> post.Pinned, Weight |-> post.Weight,
     Draft |-> post.Draft, Version |-> VersionOf(f), Meta |-> metaData,
     HTML |-> htmlContent]

\* models.PostMetadata seeded from a cached PostMeta (lines 164-168).
CachedPostMetadata(cp) ==
    [Title |-> cp.Title, Link |-> cp.Link, Weight |-> cp.Weight,
     Version |-> cp.Version, Tags |-> cp.Tags, Pinned |-> cp.Pinned,
     Draft |-> cp.Draft]

\* cache.SearchRecord as staged on the miss path (lines 535-539).
NewSearchRecord(post, plainText, docLen) ==
    [Title |-> post.Title, Content |-> plainText, DocLen |-> docLen]

\* CacheService.GetPostByPath / GetHTMLContent / GetSearchRecord.
GetPostByPath(f) == cachePosts[f]
GetHTMLContent(meta) == meta.HTML
GetSearchRecord(f) == cacheSearch[f]

\* CacheService.BatchCommit: posts, search records and dependencies of one
\* build are written together.
BatchCommitPosts(posts, newPostsMeta) ==
    [f \in Files |->
        LET idx == {i \in 1..Len(newPostsMeta) : newPostsMeta[i].Path = f}
        IN  IF idx = {} THEN posts[f]
            ELSE newPostsMeta[CHOOSE i \in idx : \A j \in idx : j <= i]]

BatchCommitSearch(search, newSearchRecords) ==
    [f \in Files |-> IF newSearchRecords[f] = Nil THEN search[f] ELSE newSearchRecords[f]]

EmptyStaging ==
    [newPostsMeta |-> <<>>, newSearchRecords |-> [f \in Files |-> Nil],
     newDeps |-> [f \in Files |-> Nil]]

(* ------------------------------- Init ---------------------------------- *)

\* The walk order of afero.Walk over a set of files.
RECURSIVE SeqOf(_)
SeqOf(S) ==
    IF S = {} THEN <<>>
    ELSE LET m == CHOOSE x \in S : \A y \in S : x <= y
         IN  <<m>> \o SeqOf(S \ {m})

Present(tree) == {f \in Files : tree[f] # Nil}

InitialFile(f) == [fm |-> IF f = 2 THEN 2 ELSE 1, body |-> 1, mtime |-> 0, kind |-> "ok"]

\* A cache entry written by a release that recorded no body hash: the probe
\* (line 229) and the change classifier (incremental.go line 178) both
\* provide for BodyHash == "".
LegacyPostMeta(f, src) ==
    NewPostMeta(f, Unix(src.mtime), GetFrontmatterHash(src.fm), NoHash,
                PostMetadata(f, src.fm), src.fm, RenderHTML(src.body))

\* A cache entry as a build wrote it for the source src.
FreshPostMeta(f, src) ==
    NewPostMeta(f, Unix(src.mtime), GetFrontmatterHash(src.fm), GetBodyHash(src.body),
                PostMetadata(f, src.fm), src.fm, RenderHTML(src.body))

\* The page of post f in a tree whose sorted posts are `sorted`.
BuiltPage(f, src, sorted, t) ==
    LET post == PostMetadata(f, src.fm)
        nb == FindPrevNext(post, sorted)
    IN  [mtime |-> t,
         Data |-> [PageData(post, RenderHTML(src.body), src.fm) EXCEPT
                     !.PrevPage = nb.prev, !.NextPage = nb.next,
                     !.SiteTree = BuildSiteTree(sorted)]]

TaskIdle == [st |-> "none", exists |-> FALSE, useCache |-> FALSE, out |-> "", loc |-> Nil]

ZeroIndexedPost ==
    [ID |-> 0, Title |-> 0, Link |-> NoLink, Tags |-> {}, Content |-> 0,
     Version |-> NoVersion, DocLen |-> 0]

NoArgs == [shouldForce |-> FALSE, forceSocialRebuild |-> FALSE, outputMissing |-> FALSE]
\* The flag combinations a build is started with: at most one flag set.
ArgChoices ==
    {a \in [shouldForce : BOOLEAN, forceSocialRebuild : BOOLEAN, outputMissing : BOOLEAN] :
        Cardinality({k \in {"shouldForce", "forceSocialRebuild", "outputMissing"} : a[k]}) <= 1}
\* What the current Process call has done and what it started from: the
\* card tasks submitted and run, the cache after the stale sweep, the edit count, the content tree of the
\* call before it, the files whose entries the sweep deleted, and the
\* output tree and card hashes the call started from.
EmptyLog ==
    [batchCommit |-> FALSE, cardSubmitted |-> {}, cardGenerated |-> {},
     cachePosts0 |-> Nil, edits0 |-> 0,
     prevSource |-> Nil, purged |-> {}, destPages0 |-> Nil, destCards0 |-> Nil,
     socialHash0 |-> Nil]

\* The goroutines on which the watcher calls its callback, and a callback
\* that has not been called yet.
Handlers == 1..NumHandlers
HandlerIdle == [st |-> "idle", ev |-> Nil, todo |-> <<>>]

LocalsInit ==
    /\ files = <<>>
    /\ task = [f \in Files |-> TaskIdle]
    /\ allMetadataMap = [l \in Links |-> Nil]
    /\ indexedPosts = <<>>
    /\ indexedPostIdx = -1
    /\ renderQueue = <<>>
    /\ staging = EmptyStaging
    /\ cardTasks = {}
    /\ postsByVersion = [v \in Versions |-> <<>>]
    /\ renderTasks = {}
    /\ result = Nil
    /\ log = EmptyLog

Init ==
    /\ sourceFs \in {tree \in [Files -> {Nil} \cup {InitialFile(f) : f \in Files}] :
                        /\ tree[1] # Nil
                        /\ \A f \in Files : tree[f] # Nil => tree[f] = InitialFile(f)}
    /\ includeDrafts \in BOOLEAN
    /\ cfgVersions = {}
    /\ now = 1
    /\ edits = 0
    /\ builds = 0
    /\ lastSource = Nil
    /\ pc = "idle"
    /\ args = NoArgs
    /\ cancelled = FALSE
    /\ LocalsInit
    /\ event = Nil
    /\ calls = <<>>
    /\ handlers = [h \in Handlers |-> HandlerIdle]
    /\ \/ \* no cache and no output yet
          /\ cachePosts = [f \in Files |-> Nil]
          /\ cacheSearch = [f \in Files |-> Nil]
          /\ socialHash = [f \in Files |-> NoHash]
          /\ destPages = [f \in Files |-> Nil]
          /\ destCards = [f \in Files |-> Nil]
       \/ \* cache and output left by an earlier release
          /\ cachePosts = [f \in Files |->
                IF sourceFs[f] = Nil THEN Nil ELSE LegacyPostMeta(f, sourceFs[f])]
          /\ cacheSearch = [f \in Files |->
                IF sourceFs[f] = Nil THEN Nil
                ELSE NewSearchRecord(PostMetadata(f, sourceFs[f].fm),
                                     ExtractPlainText(sourceFs[f].body),
                                     DocLen(sourceFs[f].fm, sourceFs[f].body))]
          /\ socialHash = [f \in Files |->
                IF sourceFs[f] = Nil THEN NoHash ELSE GetFrontmatterHash(sourceFs[f].fm)]
          /\ \E sorted \in SortPosts({PostMetadata(f, sourceFs[f].fm) : f \in Present(sourceFs)}) :
                destPages = [f \in Files |->
                    IF sourceFs[f] = Nil THEN Nil ELSE BuiltPage(f, sourceFs[f], sorted, 1)]
          /\ destCards = [f \in Files |->
                IF sourceFs[f] = Nil THEN Nil
                ELSE [mtime |-> 1, hash |-> GetFrontmatterHash(sourceFs[f].fm)]]
       \/ \* output kept, cache written by a first run that was interrupted
          \* after the staging and before its card tasks ran
          /\ cachePosts = [f \in Files |->
                IF sourceFs[f] = Nil THEN Nil ELSE FreshPostMeta(f, sourceFs[f])]
          /\ cacheSearch = [f \in Files |->
                IF sourceFs[f] = Nil THEN Nil
                ELSE NewSearchRecord(PostMetadata(f, sourceFs[f].fm),
                                     ExtractPlainText(sourceFs[f].body),
                                     DocLen(sourceFs[f].fm, sourceFs[f].body))]
          /\ socialHash = [f \in Files |-> NoHash]
          /\ \E sorted \in SortPosts({PostMetadata(f, sourceFs[f].fm) : f \in Present(sourceFs)}) :
                destPages = [f \in Files |->
                    IF sourceFs[f] = Nil THEN Nil ELSE BuiltPage(f, sourceFs[f], sorted, 1)]
          /\ destCards = [f \in Files |->
                IF sourceFs[f] = Nil THEN Nil
                ELSE [mtime |-> 1, hash |-> GetFrontmatterHash(sourceFs[f].fm)]]

(* --------------------------- the environment --------------------------- *)

\* An editor writes file f: new content, with the mtime advanced to the
\* clock or left as it was (a write within the timestamp granularity, or a
\* tool that restores the mtime).
WriteFile(f) ==
    /\ pc = "idle"
    /\ edits < MaxEdits
    /\ \E fm \in FMs, body \in Bodies, keep \in BOOLEAN :
          /\ sourceFs[f] = Nil => ~keep
          /\ sourceFs' = [sourceFs EXCEPT ![f] =
                [fm |-> fm, body |-> body, kind |-> "ok",
                 mtime |-> IF keep THEN sourceFs[f].mtime ELSE now + 1]]
    /\ now' = now + 1
    /\ edits' = edits + 1
    /\ UNCHANGED <<destPages, destCards, cacheVars, includeDrafts, cfgVersions, builds,
                   lastSource,
                   callVars, parseVars, renderVars, log>>
    /\ UNCHANGED watchVars

\* File f becomes unreadable, unrenderable or oversized.
BreakFile(f) ==
    /\ pc = "idle"
    /\ edits < MaxEdits
    /\ sourceFs[f] # Nil
    /\ \E k \in Kinds \ {"ok"} :
          sourceFs' = [sourceFs EXCEPT ![f].kind = k, ![f].mtime = now + 1]
    /\ now' = now + 1
    /\ edits' = edits + 1
    /\ UNCHANGED <<destPages, destCards, cacheVars, includeDrafts, cfgVersions, builds,
                   lastSource,
                   callVars, parseVars, renderVars, log>>
    /\ UNCHANGED watchVars

\* File f is removed, between builds or while the parse pool runs.
RemoveFile(f) ==
    /\ pc \in {"idle", "parse"}
    /\ edits < MaxEdits
    /\ sourceFs[f] # Nil
    /\ sourceFs' = [sourceFs EXCEPT ![f] = Nil]
    /\ now' = now + 1
    /\ edits' = edits + 1
    /\ UNCHANGED <<destPages, destCards, cacheVars, includeDrafts, cfgVersions, builds,
                   lastSource,
                   callVars, parseVars, renderVars, log>>
    /\ UNCHANGED watchVars

\* The build's context is cancelled.
Cancel ==
    /\ pc \in {"parse", "render"}
    /\ builds <= MaxCancelBuild
    /\ ~cancelled
    /\ cancelled' = TRUE
    /\ UNCHANGED <<fsVars, cacheVars, envVars, pc, args, parseVars, renderVars, log>>
    /\ UNCHANGED watchVars

\* The cache store loses content of the entry of f between builds: the
\* HTML its PostMeta refers to, or its search record (the failures that the
\* loads of lines 254-262 provide for).
LoseCached(f) ==
    /\ pc = "idle"
    /\ edits < MaxEdits
    /\ cachePosts[f] # Nil
    /\ \/ /\ cachePosts[f].HTML # NoHTML
          /\ cachePosts' = [cachePosts EXCEPT ![f].HTML = NoHTML]
          /\ UNCHANGED cacheSearch
       \/ /\ cacheSearch[f] # Nil
          /\ cacheSearch' = [cacheSearch EXCEPT ![f] = Nil]
          /\ UNCHANGED cachePosts
    /\ edits' = edits + 1
    /\ UNCHANGED <<fsVars, socialHash, includeDrafts, cfgVersions, now, builds, lastSource,
                   callVars,
                   parseVars, renderVars, log>>
    /\ UNCHANGED watchVars

(* ----------------------- Process: before the pools --------------------- *)

\* utils.GetDefaultWorkerCount()
NumWorkers == 2

\* Every task is handed index 0 (the submit loop's variable captured by
\* reference instead of passed by value).
IdxShared(f) == 0

\* Lines 555-564: the index i the submit loop passes with the path.
IdxOf(f) == (CHOOSE i \in 1..Len(files) : files[i] = f) - 1

\* A sweep that deletes nothing.
StaleSweepNone(posts, existingFiles) == posts

\* Lines 108-128: cache entries whose path was not walked are deleted.
StaleSweep(posts, existingFiles) ==
    [f \in Files |->
        IF posts[f] # Nil /\ posts[f].Path \notin existingFiles THEN Nil ELSE posts[f]]

\* Lines 158-171: every cached post seeds allMetadataMap under its link.
Warmup(posts) ==
    [l \in Links |->
        LET c == {f \in Files : posts[f] # Nil /\ posts[f].Link = l}
        IN  IF c = {} THEN Nil ELSE CachedPostMetadata(posts[CHOOSE f \in c : TRUE])]

\* Lines 74-171: walk, stale sweep, allocation, card pool start, warmup;
\* lines 552-566: the submit loop queues one parse task per walked file.
ProcessBegin(shouldForce, forceSocialRebuild, outputMissing) ==
    /\ pc = "idle"
    /\ builds < MaxBuilds
    /\ ~cancelled
    /\ LET existingFiles == Present(sourceFs)
           swept == StaleSweep(cachePosts, existingFiles)
           n == Cardinality(existingFiles)
       IN  /\ files' = SeqOf(existingFiles)
           /\ cachePosts' = swept
           /\ cacheSearch' = [f \in Files |-> IF swept[f] = Nil THEN Nil ELSE cacheSearch[f]]
           /\ allMetadataMap' = Warmup(swept)
           /\ indexedPosts' = [i \in 0..(n - 1) |-> ZeroIndexedPost]
           /\ renderQueue' = [i \in 0..(n - 1) |-> Nil]
           /\ task' = [f \in Files |->
                 IF f \in existingFiles THEN [TaskIdle EXCEPT !.st = "queued"] ELSE TaskIdle]
           /\ log' = [EmptyLog EXCEPT !.cachePosts0 = swept, !.edits0 = edits,
                                       !.prevSource = lastSource,
                                       !.purged = {f \in Files : cachePosts[f] # swept[f]},
                                       !.destPages0 = destPages,
                                       !.destCards0 = destCards,
                                       !.socialHash0 = socialHash]
    /\ indexedPostIdx' = -1
    /\ staging' = EmptyStaging
    /\ cardTasks' = {}
    /\ args' = [shouldForce |-> shouldForce, forceSocialRebuild |-> forceSocialRebuild,
                outputMissing |-> outputMissing]
    /\ pc' = "parse"
    /\ now' = now + 1
    /\ builds' = builds + 1
    /\ lastSource' = sourceFs
    /\ UNCHANGED <<fsVars, socialHash, includeDrafts, cfgVersions, edits, cancelled,
                   renderVars>>
    /\ UNCHANGED watchVars

(* ------------------------- Process: parse worker ----------------------- *)

\* s.sourceFs.Stat(path): nil when the file is gone.
Stat(f) ==
    IF sourceFs[f] = Nil THEN Nil
    ELSE [ModTime |-> sourceFs[f].mtime, Oversize |-> sourceFs[f].kind = "oversize"]

\* afero.ReadFile with the error dropped (line 225): an empty source when
\* the read fails.
ReadFile(f) ==
    IF sourceFs[f] = Nil \/ sourceFs[f].kind = "unreadable"
    THEN [fm |-> EmptyFM, body |-> EmptyBody]
    ELSE [fm |-> sourceFs[f].fm, body |-> sourceFs[f].body]

\* The probe without the modification-time comparison of lines 212-214:
\* only the body hash can invalidate an entry.
CacheProbeNoMtime(cachedMeta, info, bodyHash) ==
    LET found == cachedMeta # Nil
    IN  IF found /\ cachedMeta.BodyHash # NoHash /\ cachedMeta.BodyHash # bodyHash
        THEN FALSE ELSE found

\* Lines 205-231: the cache probe, the value of `exists` at line 233.
CacheProbe(cachedMeta, info, bodyHash) ==
    LET found == cachedMeta # Nil
        fresh == IF found /\ info # Nil /\ Unix(info.ModTime) > cachedMeta.ModTime
                 THEN FALSE ELSE found
    IN  IF fresh /\ cachedMeta.BodyHash # NoHash /\ cachedMeta.BodyHash # bodyHash
        THEN FALSE ELSE fresh

\* Lines 235-240: the hash the card decision compares against.
CachedHash(f, useCache, cachedMeta) ==
    IF ~useCache THEN socialHash[f] ELSE cachedMeta.ContentHash

\* Lines 254-264: a hit is kept only if the cached HTML and search record load.
LoadsSucceed(f, cachedMeta) ==
    GetHTMLContent(cachedMeta) # NoHTML /\ GetSearchRecord(f) # Nil

\* Lines 266-294: the worker's values on a hit.
HitPath(f, cachedMeta) ==
    LET cachedSearch == GetSearchRecord(f)
        v == allMetadataMap[cachedMeta.Link]
    IN  [htmlContent |-> GetHTMLContent(cachedMeta),
         metaData |-> cachedMeta.Meta,
         frontmatterHash |-> cachedMeta.ContentHash,
         post |-> IF v # Nil THEN v ELSE ZeroPost,
         searchRecord |-> [ID |-> 0, Title |-> cachedSearch.Title, Link |-> f,
                           Tags |-> cachedMeta.Tags, Content |-> cachedSearch.Content,
                           Version |-> cachedMeta.Version, DocLen |-> cachedSearch.DocLen],
         plainText |-> 0]

\* Lines 295-406: the worker's values on a miss.
MissPath(f, source) ==
    LET post == PostMetadata(f, source.fm)
        plainText == ExtractPlainText(source.body)
    IN  [htmlContent |-> RenderHTML(source.body),
         metaData |-> source.fm,
         frontmatterHash |-> GetFrontmatterHash(source.fm),
         post |-> post,
         searchRecord |-> [ID |-> 0, Title |-> post.Title, Link |-> f,
                           Tags |-> post.Tags, Content |-> plainText,
                           Version |-> VersionOf(f), DocLen |-> DocLen(source.fm, source.body)],
         plainText |-> plainText]

\* Lines 417-425: the card counts as present only if newer than the source.
CardExists(f, info) ==
    /\ destCards[f] # Nil
    /\ info # Nil
    /\ destCards[f].mtime > info.ModTime

\* Line 427: whether a card task is submitted.
SubmitCard(forceSocialRebuild, cachedHash, frontmatterHash, cardExists) ==
    forceSocialRebuild \/ (cachedHash # frontmatterHash \/ ~cardExists)

\* Lines 454-468: "yes", "no", or "panic" when the miss path dereferences a
\* nil FileInfo (line 465, destination present and source Stat failed).
WillRender(outputMissing, useCache, destInfo, info) ==
    IF outputMissing THEN "yes"
    ELSE IF useCache THEN (IF destInfo = Nil THEN "yes" ELSE "no")
    ELSE IF destInfo = Nil THEN "yes"
    ELSE IF info = Nil THEN "panic"
    ELSE IF ~(destInfo.mtime > info.ModTime) THEN "yes" ELSE "no"

\* The pool hands tasks out in submit order to NumWorkers workers.
WorkerFree(f) ==
    Cardinality({i \in 1..Len(files) :
                    i < IdxOf(f) + 1 /\ task[files[i]].st # "done"}) < NumWorkers

TaskDone(f, exists, useCache, out) ==
    [st |-> "done", exists |-> exists, useCache |-> useCache, out |-> out, loc |-> Nil]

\* An increment that loses the update of a concurrent worker: the counter
\* is read, and the value written back is the one another worker also wrote.
AddInt32Lost(c) == IF c < 0 THEN 0 ELSE c

\* Line 511: atomic.AddInt32(&indexedPostIdx, 1), the new value.
AddInt32(c) == c + 1

\* Lines 178-513: one parse task up to the write of its indexedPosts slot.
ProcessPost(f) ==
    /\ pc = "parse"
    /\ ~cancelled
    /\ task[f].st = "queued"
    /\ WorkerFree(f)
    /\ LET idx == IdxOf(f)
           cachedMeta == GetPostByPath(f)
           info == Stat(f)
           source == ReadFile(f)
           bodyHash == GetBodyHash(source.body)
           exists == CacheProbe(cachedMeta, info, bodyHash)
           useCache0 == exists /\ ~args.shouldForce
           cachedHash == CachedHash(f, useCache0, cachedMeta)
           useCache == useCache0 /\ LoadsSucceed(f, cachedMeta)
           p == IF useCache THEN HitPath(f, cachedMeta) ELSE MissPath(f, source)
           oversize == info # Nil /\ info.Oversize
           renderFails == ~useCache /\ sourceFs[f] # Nil /\ sourceFs[f].kind = "renderfail"
           cardExists == CardExists(f, info)
           submit == SubmitCard(args.forceSocialRebuild, cachedHash, p.frontmatterHash, cardExists)
           wr == WillRender(args.outputMissing, useCache, destPages[f], info)
           id == AddInt32(indexedPostIdx)
       IN  IF oversize
           THEN /\ task' = [task EXCEPT ![f] = TaskDone(f, FALSE, FALSE, "oversize")]
                /\ UNCHANGED <<pc, socialHash, cardTasks, renderQueue, allMetadataMap,
                               indexedPostIdx, indexedPosts, log>>
           ELSE IF renderFails
           THEN /\ task' = [task EXCEPT ![f] = TaskDone(f, exists, useCache, "renderfail")]
                /\ UNCHANGED <<pc, socialHash, cardTasks, renderQueue, allMetadataMap,
                               indexedPostIdx, indexedPosts, log>>
           ELSE IF p.post.Draft /\ ~includeDrafts
           THEN /\ task' = [task EXCEPT ![f] = TaskDone(f, exists, useCache, "draft")]
                /\ UNCHANGED <<pc, socialHash, cardTasks, renderQueue, allMetadataMap,
                               indexedPostIdx, indexedPosts, log>>
           ELSE IF wr = "panic"
           THEN /\ pc' = "panic"
                /\ task' = [task EXCEPT ![f] = TaskDone(f, exists, useCache, "panic")]
                /\ UNCHANGED <<socialHash, cardTasks, renderQueue, allMetadataMap,
                               indexedPostIdx, indexedPosts, log>>
           ELSE /\ cardTasks' =
                     IF submit
                     THEN cardTasks \cup {[path |-> f, metaData |-> p.metaData,
                                           frontmatterHash |-> p.frontmatterHash]}
                     ELSE cardTasks
                /\ log' = IF submit
                          THEN [log EXCEPT !.cardSubmitted = @ \cup {f}]
                          ELSE log
                /\ socialHash' =
                     IF ~submit /\ cardExists /\ cachedHash = NoHash
                     THEN [socialHash EXCEPT ![f] = p.frontmatterHash]
                     ELSE socialHash
                /\ renderQueue' =
                     IF wr = "yes"
                     THEN [renderQueue EXCEPT ![idx] =
                             [DestPath |-> f, Version |-> VersionOf(f),
                              Data |-> PageData(p.post, p.htmlContent, p.metaData)]]
                     ELSE renderQueue
                /\ allMetadataMap' = [allMetadataMap EXCEPT ![p.post.Link] = p.post]
                /\ indexedPostIdx' = id
                /\ indexedPosts' = [indexedPosts EXCEPT ![id] = [p.searchRecord EXCEPT !.ID = id]]
                /\ task' = [task EXCEPT ![f] =
                     [st |-> "published", exists |-> exists, useCache |-> useCache,
                      out |-> "published",
                      loc |-> [info |-> info, bodyHash |-> bodyHash, p |-> p]]]
                /\ UNCHANGED pc
    /\ UNCHANGED <<fsVars, cachePosts, cacheSearch, envVars, args, cancelled, files,
                   staging, renderVars>>
    /\ UNCHANGED watchVars

\* A mutex that never makes a worker wait.
BatchMuFreeAlways == TRUE

\* batchMu (line 133) is held by the worker between lines 542 and 546.
BatchMuFree == \A g \in Files : task[g].st # "locked"

\* Lines 515-542: the cancellation check; on a miss the records are built
\* and batchMu is taken.
StagePost(f) ==
    /\ pc = "parse"
    /\ task[f].st = "published"
    /\ LET loc == task[f].loc
           done == [task EXCEPT ![f] = TaskDone(f, task[f].exists, task[f].useCache, "published")]
       IN  IF cancelled \/ task[f].useCache
           THEN /\ task' = done
                /\ UNCHANGED pc
           ELSE IF loc.info = Nil
           THEN \* line 525: info.ModTime() on a nil FileInfo
                /\ pc' = "panic"
                /\ task' = [task EXCEPT ![f] = TaskDone(f, task[f].exists, FALSE, "panic")]
           ELSE /\ BatchMuFree
                /\ task' = [task EXCEPT ![f].st = "locked"]
                /\ UNCHANGED pc
    /\ UNCHANGED <<fsVars, cacheVars, envVars, args, cancelled, files, allMetadataMap,
                   indexedPosts, indexedPostIdx, renderQueue, staging, cardTasks,
                   renderVars, log>>
    /\ UNCHANGED watchVars

\* Lines 543-546: the three appends under batchMu, then Unlock.
AppendStaged(f) ==
    /\ pc = "parse"
    /\ task[f].st = "locked"
    /\ LET loc == task[f].loc
           p == loc.p
       IN  staging' =
              [newPostsMeta |-> Append(staging.newPostsMeta,
                   NewPostMeta(f, Unix(loc.info.ModTime), p.frontmatterHash,
                               loc.bodyHash, p.post, p.metaData, p.htmlContent)),
               newSearchRecords |-> [staging.newSearchRecords EXCEPT ![f] =
                   NewSearchRecord(p.post, p.plainText, p.searchRecord.DocLen)],
               newDeps |-> [staging.newDeps EXCEPT ![f] = [Tags |-> p.post.Tags]]]
    /\ task' = [task EXCEPT ![f] = TaskDone(f, task[f].exists, task[f].useCache, "published")]
    /\ UNCHANGED <<fsVars, cacheVars, envVars, callVars, files, allMetadataMap,
                   indexedPosts, indexedPostIdx, renderQueue, cardTasks, renderVars, log>>
    /\ UNCHANGED watchVars

\* A task dequeued after the cancellation is dropped by the pool.
DropPost(f) ==
    /\ pc = "parse"
    /\ cancelled
    /\ task[f].st = "queued"
    /\ task' = [task EXCEPT ![f] = TaskDone(f, FALSE, FALSE, "dropped")]
    /\ UNCHANGED <<fsVars, cacheVars, envVars, callVars, files, allMetadataMap,
                   indexedPosts, indexedPostIdx, renderQueue, staging, cardTasks,
                   renderVars, log>>
    /\ UNCHANGED watchVars

(* -------------------------- Process: card pool ------------------------- *)

\* generateSocialCard: the card is written and its front-matter hash recorded.
GenerateSocialCard(t) ==
    /\ pc = "parse"
    /\ ~cancelled
    /\ t \in cardTasks
    /\ cardTasks' = cardTasks \ {t}
    /\ destCards' = [destCards EXCEPT ![t.path] = [mtime |-> now, hash |-> t.frontmatterHash]]
    /\ socialHash' = [socialHash EXCEPT ![t.path] = t.frontmatterHash]
    /\ log' = [log EXCEPT !.cardGenerated = @ \cup {t.path}]
    /\ UNCHANGED <<sourceFs, destPages, cachePosts, cacheSearch, envVars, callVars, files,
                   task, allMetadataMap, indexedPosts, indexedPostIdx, renderQueue,
                   staging, renderVars>>
    /\ UNCHANGED watchVars

\* A card task dequeued after the cancellation is dropped by the pool.
DropCard(t) ==
    /\ pc = "parse"
    /\ cancelled
    /\ t \in cardTasks
    /\ cardTasks' = cardTasks \ {t}
    /\ UNCHANGED <<fsVars, cacheVars, envVars, callVars, files, task, allMetadataMap,
                   indexedPosts, indexedPostIdx, renderQueue, staging, renderVars, log>>
    /\ UNCHANGED watchVars

(* ------------------- Process: global artifacts, render ----------------- *)

AllTags == {"x", "y"}

\* Lines 586-594: whether post p belongs to the main feed.
IsLatestOrUnversioned(p) ==
    \/ p.Version = NoVersion
    \/ /\ cfgVersions # {}
       /\ \E v \in cfgVersions : v.IsLatest /\ p.Version = v.Name

\* Lines 570-604: the posts of allMetadataMap.
RangeMetadata(m) == {m[l] : l \in {k \in Links : m[k] # Nil}}

\* Lines 576-581: tag -> posts carrying it.
BuildTagMap(posts) == [t \in AllTags |-> {p \in posts : t \in p.Tags}]

\* Lines 618-643: the render task of one renderQueue slot, with neighbours.
RenderTask(slot, byVersion) ==
    LET versionPosts == byVersion[slot.Version]
        found == {i \in 1..Len(versionPosts) : versionPosts[i].Link = slot.Data.Permalink}
        currentPost ==
            IF found # {} THEN versionPosts[CHOOSE i \in found : \A j \in found : i <= j]
            ELSE [ZeroPost EXCEPT !.Title = slot.Data.Title, !.Link = slot.Data.Permalink,
                                  !.Version = slot.Version]
        nb == FindPrevNext(currentPost, versionPosts)
    IN  [slot EXCEPT !.Data.PrevPage = nb.prev, !.Data.NextPage = nb.next]

\* A Stop that returns while parse tasks are still queued or running.
ParsePoolStoppedEarly == TRUE

\* Line 567, parsePool.Stop(): returns when every submitted parse task has
\* run to its end or was dropped.
ParsePoolStopped == \A f \in Files : task[f].st \in {"none", "done"}

\* A Stop that returns while card tasks are still queued.
CardPoolStoppedEarly == TRUE

\* Line 568, cardPool.Stop(): returns when no card task is left.
CardPoolStopped == cardTasks = {}

\* Lines 567-643: both pools are stopped, the metadata is grouped and sorted,
\* the site trees are built and every filled renderQueue slot is submitted.
ProcessJoin ==
    /\ pc = "parse"
    /\ ParsePoolStopped
    /\ CardPoolStopped
    /\ LET posts == RangeMetadata(allMetadataMap)
           feed == {p \in posts : IsLatestOrUnversioned(p)}
       IN  \E byVersion \in [Versions -> UNION {SortPosts({p \in posts : p.Version = v}) : v \in Versions}],
              allPosts \in SortPosts({p \in feed : ~p.Pinned}),
              pinnedPosts \in SortPosts({p \in feed : p.Pinned}) :
              /\ \A v \in Versions : byVersion[v] \in SortPosts({p \in posts : p.Version = v})
              /\ postsByVersion' = byVersion
              /\ renderTasks' =
                    IF cancelled THEN {}
                    ELSE {RenderTask(renderQueue[i], byVersion) :
                             i \in {k \in DOMAIN renderQueue : renderQueue[k] # Nil}}
              /\ result' = [AllPosts |-> allPosts, PinnedPosts |-> pinnedPosts,
                            TagMap |-> BuildTagMap(posts), IndexedPosts |-> indexedPosts,
                            AnyPostChanged |-> \E k \in DOMAIN renderQueue : renderQueue[k] # Nil]
    /\ pc' = "render"
    /\ UNCHANGED <<fsVars, cacheVars, envVars, args, cancelled, parseVars, log>>
    /\ UNCHANGED watchVars

\* Lines 612-615: a render worker sets the site tree and renders the page.
RenderPage(t) ==
    /\ pc = "render"
    /\ ~cancelled
    /\ t \in renderTasks
    /\ renderTasks' = renderTasks \ {t}
    /\ destPages' = [destPages EXCEPT ![t.DestPath] =
          [mtime |-> now,
           Data |-> [t.Data EXCEPT !.SiteTree = BuildSiteTree(postsByVersion[t.Version])]]]
    /\ UNCHANGED <<sourceFs, destCards, cacheVars, envVars, callVars, parseVars,
                   postsByVersion, result, log>>
    /\ UNCHANGED watchVars

\* A render task dequeued after the cancellation is dropped by the pool.
DropRender(t) ==
    /\ pc = "render"
    /\ cancelled
    /\ t \in renderTasks
    /\ renderTasks' = renderTasks \ {t}
    /\ UNCHANGED <<fsVars, cacheVars, envVars, callVars, parseVars, postsByVersion,
                   result, log>>
    /\ UNCHANGED watchVars

\* Lines 644-664: the render pool is stopped, the staged records are
\* committed when there are any, and the result is returned.
ProcessReturn ==
    /\ pc = "render"
    /\ renderTasks = {}
    /\ IF Len(staging.newPostsMeta) > 0
       THEN /\ cachePosts' = BatchCommitPosts(cachePosts, staging.newPostsMeta)
            /\ cacheSearch' = BatchCommitSearch(cacheSearch, staging.newSearchRecords)
            /\ log' = [log EXCEPT !.batchCommit = TRUE]
       ELSE UNCHANGED <<cachePosts, cacheSearch, log>>
    /\ pc' = "returned"
    /\ UNCHANGED <<fsVars, socialHash, envVars, args, cancelled, parseVars, renderVars>>
    /\ UNCHANGED watchVars

\* The caller drops the result; Process's locals are gone.  After a
\* cancellation the program shuts down instead.
ProcessEnd ==
    /\ pc = "returned"
    /\ ~cancelled
    /\ pc' = "idle"
    /\ args' = NoArgs
    /\ files' = <<>>
    /\ task' = [f \in Files |-> TaskIdle]
    /\ allMetadataMap' = [l \in Links |-> Nil]
    /\ indexedPosts' = <<>>
    /\ indexedPostIdx' = -1
    /\ renderQueue' = <<>>
    /\ staging' = EmptyStaging
    /\ cardTasks' = {}
    /\ postsByVersion' = [v \in Versions |-> <<>>]
    /\ renderTasks' = {}
    /\ result' = Nil
    /\ log' = EmptyLog
    /\ UNCHANGED <<fsVars, cacheVars, envVars, cancelled>>
    /\ UNCHANGED watchVars

(* ------------------------ BuildChanged (watch mode) -------------------- *)

\* Watched paths.  dir is the watched root the path lies under: the content
\* directory, the template directory, cfg.StaticDir ("themestatic"), the
\* site's "static" directory, or the project root; f is the content file a
\* content .md path names, 0 otherwise.
Paths ==
    {[dir |-> "content", name |-> "post", ext |-> ".md", f |-> f] : f \in Files}
    \cup {[dir |-> "content", name |-> "figure", ext |-> ".png", f |-> 0],
          [dir |-> "templates", name |-> "layout", ext |-> ".html", f |-> 0],
          [dir |-> "templates", name |-> "post", ext |-> ".html", f |-> 0],
          [dir |-> "templates", name |-> "notes", ext |-> ".md", f |-> 0],
          [dir |-> "templates", name |-> "inline", ext |-> ".css", f |-> 0],
          [dir |-> "themestatic", name |-> "app", ext |-> ".js", f |-> 0],
          [dir |-> "static", name |-> "style", ext |-> ".css", f |-> 0],
          [dir |-> "static", name |-> "logo", ext |-> ".png", f |-> 0],
          [dir |-> ".", name |-> "kosh", ext |-> ".yaml", f |-> 0]}

\* fsnotify.Op values delivered to the callback.
Ops == {{"Create"}, {"Write"}, {"Remove"}, {"Rename"}}

\* Outcomes of the calls whose code decides the handler's control flow:
\* Build, ProcessSingle and SyncVFS may each return an error.
Outcomes ==
    {[buildErr |-> FALSE, singleErr |-> FALSE, syncErr |-> FALSE],
     [buildErr |-> TRUE, singleErr |-> FALSE, syncErr |-> FALSE],
     [buildErr |-> FALSE, singleErr |-> TRUE, syncErr |-> FALSE],
     [buildErr |-> TRUE, singleErr |-> TRUE, syncErr |-> FALSE],
     [buildErr |-> FALSE, singleErr |-> FALSE, syncErr |-> TRUE]}

Call(fn, f) == [fn |-> fn, f |-> f]

\* invalidateForTemplate, lines 21-58: all = TRUE is the nil result
\* ("everything"), otherwise the paths of the posts to invalidate.
\* GetPostsByTemplate lists every cached post under the post template.
invalidateForTemplate(path) ==
    IF path.dir = "templates"
    THEN IF path.name = "layout" /\ path.ext = ".html"
         THEN [all |-> TRUE, paths |-> {}]
         ELSE [all |-> FALSE,
               paths |-> IF path.name = "post" /\ path.ext = ".html"
                         THEN {f \in Files : cachePosts[f] # Nil} ELSE {}]
    ELSE IF path.dir = "themestatic" THEN [all |-> TRUE, paths |-> {}]
    ELSE [all |-> TRUE, paths |-> {}]

\* A test of line 74 that never recognises a deletion.
IsRemoveOrRenameNever(op) == FALSE

\* Line 74: the event carries the Remove or the Rename bit.
IsRemoveOrRename(op) == "Remove" \in op \/ "Rename" \in op

\* Lines 75 and 87: a .md path under the content directory.
IsContentMarkdown(path) == path.ext = ".md" /\ path.dir = "content"

\* isAssetPath, lines 118-124.
isAssetPath(path) == path.dir = "themestatic" \/ path.dir = "static"

\* Lines 98-99.
IsAssetChange(path) == path.ext \in {".css", ".js"} /\ isAssetPath(path)

\* Build followed by SaveCaches unless Build failed (lines 77-82, 101-106,
\* 110-114, 166-170, 173-177).
RebuildAll(o) ==
    IF o.buildErr THEN <<Call("Build", 0)>>
    ELSE <<Call("Build", 0), Call("SaveCaches", 0)>>

\* A CSS/JS branch that returns without building.
AssetRebuildNone(o) == <<>>

\* Lines 100-106: the CSS/JS branch.
AssetRebuild(o) == RebuildAll(o)

\* buildSinglePost without the single-post branch: every change is rebuilt
\* in full.
buildSinglePostAlwaysFull(f, o) ==
    IF o.buildErr THEN <<Call("Build", 0)>>
    ELSE <<Call("Build", 0), Call("SaveCaches", 0)>>

\* buildSinglePost, lines 127-191.
buildSinglePost(f, o) ==
    IF sourceFs[f] = Nil \/ sourceFs[f].kind = "unreadable"
    THEN <<Call("Build", 0)>>
    ELSE LET newFrontmatterHash == GetFrontmatterHash(sourceFs[f].fm)
             newBodyHash == GetBodyHash(sourceFs[f].body)
             meta == GetPostByPath(f)
             exists == meta # Nil
             cachedFrontmatterHash == IF exists THEN meta.ContentHash ELSE NoHash
             cachedBodyHash == IF exists THEN meta.BodyHash ELSE NoHash
             frontmatterChanged == exists /\ cachedFrontmatterHash # newFrontmatterHash
             bodyOnlyChanged == /\ exists
                                /\ cachedFrontmatterHash = newFrontmatterHash
                                /\ cachedBodyHash # newBodyHash
         IN  IF ~exists THEN RebuildAll(o)
             ELSE IF frontmatterChanged THEN RebuildAll(o)
             ELSE IF bodyOnlyChanged \/ cachedBodyHash = NoHash
             THEN IF ~o.singleErr
                  THEN <<Call("ProcessSingle", f), Call("SaveCaches", 0)>>
                  ELSE IF o.buildErr
                  THEN <<Call("ProcessSingle", f), Call("Build", 0)>>
                  ELSE <<Call("ProcessSingle", f), Call("Build", 0), Call("SaveCaches", 0)>>
             ELSE <<>>

\* The calls BuildChanged makes after the context check, lines 73-114.
BuildChangedCalls(path, op, o) ==
    IF IsRemoveOrRename(op) /\ IsContentMarkdown(path)
    THEN <<Call("deletePostFromCache", path.f)>> \o RebuildAll(o)
    ELSE IF IsContentMarkdown(path)
    THEN buildSinglePost(path.f, o)
         \o (IF o.syncErr THEN <<Call("SyncVFS", 0)>>
             ELSE <<Call("SyncVFS", 0), Call("ClearRenderedFiles", 0)>>)
    ELSE IF IsAssetChange(path) THEN AssetRebuild(o)
    ELSE RebuildAll(o)

\* deletePostFromCache, lines 193-211.
deletePostFromCache(posts, f) == [posts EXCEPT ![f] = Nil]

\* The number of events handled so far.
Handled == IF event = Nil THEN 0 ELSE event.n

\* BuildChanged, lines 61-115, under buildMu: the handler runs alone.
BuildChanged(path, op, o) ==
    /\ pc = "idle"
    /\ Handled < MaxEvents
    /\ LET cs == IF cancelled THEN <<>> ELSE BuildChangedCalls(path, op, o)
           deletes == \E i \in 1..Len(cs) : cs[i].fn = "deletePostFromCache"
       IN  /\ calls' = cs
           /\ event' = [n |-> Handled + 1,
                        path |-> path, op |-> op, o |-> o, done |-> cancelled,
                        source |-> IF path.f = 0 THEN Nil ELSE sourceFs[path.f],
                        cached |-> IF path.f = 0 THEN Nil ELSE cachePosts[path.f]]
           /\ cachePosts' = IF deletes THEN deletePostFromCache(cachePosts, path.f)
                            ELSE cachePosts
           /\ cacheSearch' = IF deletes THEN [cacheSearch EXCEPT ![path.f] = Nil]
                             ELSE cacheSearch
    /\ UNCHANGED <<fsVars, socialHash, envVars, callVars, parseVars, renderVars, log,
                   handlers>>

\* main: cancel() on SIGINT / SIGTERM, at any time.
Shutdown ==
    /\ pc = "idle"
    /\ ~cancelled
    /\ cancelled' = TRUE
    /\ UNCHANGED <<fsVars, cacheVars, envVars, pc, args, parseVars, renderVars, log,
                   watchVars>>

\* The sources a content file may hold when an event is handled.
ChangedSources ==
    {[fm |-> fm, body |-> body, mtime |-> 2, kind |-> k] :
        fm \in {1, 2}, body \in Bodies, k \in {"ok", "unreadable"}}

\* Watch mode after the initial build of InitialFile: every content file
\* was cached (by this release or by an earlier one) or the cache is empty,
\* and each file has since been left alone, edited or removed.
InitChanged ==
    /\ sourceFs \in [Files -> {Nil} \cup ChangedSources]
    /\ includeDrafts = FALSE
    /\ cfgVersions = {}
    /\ now = 2
    /\ edits = 0
    /\ builds = 0
    /\ lastSource = Nil
    /\ pc = "idle"
    /\ args = NoArgs
    /\ cancelled = FALSE
    /\ LocalsInit
    /\ event = Nil
    /\ calls = <<>>
    /\ handlers = [h \in Handlers |-> HandlerIdle]
    /\ \E kind \in {"none", "fresh", "legacy"} :
          /\ cachePosts = [f \in Files |->
                IF kind = "none" THEN Nil
                ELSE IF kind = "fresh" THEN FreshPostMeta(f, InitialFile(f))
                ELSE LegacyPostMeta(f, InitialFile(f))]
          /\ cacheSearch = [f \in Files |->
                IF kind = "none" THEN Nil
                ELSE NewSearchRecord(PostMetadata(f, InitialFile(f).fm),
                                     ExtractPlainText(InitialFile(f).body),
                                     DocLen(InitialFile(f).fm, InitialFile(f).body))]
    /\ socialHash = [f \in Files |-> NoHash]
    /\ destPages = [f \in Files |-> Nil]
    /\ destCards = [f \in Files |-> Nil]

(* ------------------- BuildChanged: concurrent callbacks ---------------- *)

\* The build outcomes drawn for concurrent callbacks.
WatchOutcomes == {o \in Outcomes : ~o.singleErr /\ ~o.syncErr}

\* A mutex that never makes a caller wait.
BuildMuNeverHeld == TRUE

\* b.buildMu (lines 62-63): held from Lock to the deferred Unlock.
BuildMuFree == \A g \in Handlers : handlers[g].st # "inside"

\* main.go lines 95-98 and 155-158: the watcher calls the callback on
\* goroutine h, which calls BuildChanged and arrives at buildMu.Lock().
Callback(h, path, op, o) ==
    /\ pc = "idle"
    /\ handlers[h].st = "idle"
    /\ handlers' = [handlers EXCEPT ![h] =
          [st |-> "waiting", ev |-> [path |-> path, op |-> op, o |-> o], todo |-> <<>>]]
    /\ UNCHANGED <<fsVars, cacheVars, envVars, callVars, parseVars, renderVars, log,
                   event, calls>>

\* Lines 62-69: Lock returns, the context is checked; the calls of lines
\* 73-114 lie ahead unless the context is done.
LockBuildMu(h) ==
    /\ handlers[h].st = "waiting"
    /\ BuildMuFree
    /\ handlers' = [handlers EXCEPT ![h].st = "inside",
                                    ![h].todo =
                                       IF cancelled THEN <<>>
                                       ELSE BuildChangedCalls(handlers[h].ev.path,
                                                              handlers[h].ev.op,
                                                              handlers[h].ev.o)]
    /\ UNCHANGED <<fsVars, cacheVars, envVars, callVars, parseVars, renderVars, log,
                   event, calls>>

\* Lines 73-114: the next call of the handler on goroutine h.
HandlerCall(h) ==
    /\ handlers[h].st = "inside"
    /\ handlers[h].todo # <<>>
    /\ LET c == Head(handlers[h].todo)
       IN  /\ calls' = Append(calls, [fn |-> c.fn, f |-> c.f, h |-> h])
           /\ cachePosts' = IF c.fn = "deletePostFromCache"
                            THEN deletePostFromCache(cachePosts, c.f) ELSE cachePosts
           /\ cacheSearch' = IF c.fn = "deletePostFromCache"
                             THEN [cacheSearch EXCEPT ![c.f] = Nil] ELSE cacheSearch
    /\ handlers' = [handlers EXCEPT ![h].todo = Tail(@)]
    /\ UNCHANGED <<fsVars, socialHash, envVars, callVars, parseVars, renderVars, log, event>>

\* The deferred Unlock of line 63 when BuildChanged returns.
UnlockBuildMu(h) ==
    /\ handlers[h].st = "inside"
    /\ handlers[h].todo = <<>>
    /\ handlers' = [handlers EXCEPT ![h].st = "returned"]
    /\ UNCHANGED <<fsVars, cacheVars, envVars, callVars, parseVars, renderVars, log,
                   event, calls>>

\* Watch mode after the initial build: every content file is cached, and
\* file 1 has since had its body edited.
InitWatch ==
    /\ sourceFs = [f \in Files |->
          IF f = 1 THEN [InitialFile(f) EXCEPT !.body = 2, !.mtime = 2] ELSE InitialFile(f)]
    /\ includeDrafts = FALSE
    /\ cfgVersions = {}
    /\ now = 2
    /\ edits = 0
    /\ builds = 0
    /\ lastSource = Nil
    /\ pc = "idle"
    /\ args = NoArgs
    /\ cancelled = FALSE
    /\ LocalsInit
    /\ event = Nil
    /\ calls = <<>>
    /\ handlers = [h \in Handlers |-> HandlerIdle]
    /\ cachePosts = [f \in Files |-> FreshPostMeta(f, InitialFile(f))]
    /\ cacheSearch = [f \in Files |->
          NewSearchRecord(PostMetadata(f, InitialFile(f).fm),
                          ExtractPlainText(InitialFile(f).body),
                          DocLen(InitialFile(f).fm, InitialFile(f).body))]
    /\ socialHash = [f \in Files |-> GetFrontmatterHash(InitialFile(f).fm)]
    /\ destPages = [f \in Files |-> Nil]
    /\ destCards = [f \in Files |-> Nil]

(* ----------------------- the main feed (grouping) --------------------- *)

\* The version lists a site may configure: each name at most once.
VersionConfigs ==
    {c \in SUBSET [Name : VersionNames, IsLatest : BOOLEAN] :
        \A v, w \in c : v.Name = w.Name => v = w}

\* The post a worker may have stored under link l: its version is empty or
\* a configured name (the first path segment, when it matches one).
FeedPosts(l, c) ==
    {[Title |-> l, Link |-> l, Weight |-> 0, Version |-> v, Tags |-> {},
      Pinned |-> b, Draft |-> FALSE] :
        v \in {NoVersion} \cup {w.Name : w \in c}, b \in BOOLEAN}

\* The inputs of the grouping of lines 570-604: the configured versions and
\* the metadata map as the drained parse pool left it; nothing is queued
\* for rendering.
InitFeed ==
    /\ cfgVersions \in VersionConfigs
    /\ allMetadataMap \in
          {m \in [Links -> {Nil} \cup UNION {FeedPosts(l, cfgVersions) : l \in Links \ {NoLink}}] :
              /\ m[NoLink] = Nil
              /\ \A l \in Links \ {NoLink} : m[l] # Nil => m[l].Link = l}
    /\ sourceFs = [f \in Files |-> Nil]
    /\ destPages = [f \in Files |-> Nil]
    /\ destCards = [f \in Files |-> Nil]
    /\ cachePosts = [f \in Files |-> Nil]
    /\ cacheSearch = [f \in Files |-> Nil]
    /\ socialHash = [f \in Files |-> NoHash]
    /\ includeDrafts = FALSE
    /\ now = 1
    /\ edits = 0
    /\ builds = 1
    /\ lastSource = Nil
    /\ pc = "parse"
    /\ args = NoArgs
    /\ cancelled = FALSE
    /\ files = <<>>
    /\ task = [f \in Files |-> TaskIdle]
    /\ indexedPosts = <<>>
    /\ indexedPostIdx = -1
    /\ renderQueue = <<>>
    /\ staging = EmptyStaging
    /\ cardTasks = {}
    /\ postsByVersion = [v \in Versions |-> <<>>]
    /\ renderTasks = {}
    /\ result = Nil
    /\ log = EmptyLog
    /\ event = Nil
    /\ calls = <<>>
    /\ handlers = [h \in Handlers |-> HandlerIdle]

(* ---------------------------- specification ---------------------------- *)

Next ==
    \/ \E f \in Files : WriteFile(f)
    \/ \E f \in Files : BreakFile(f)
    \/ \E f \in Files : RemoveFile(f)
    \/ Cancel
    \/ \E f \in Files : LoseCached(f)
    \/ \E a \in ArgChoices : ProcessBegin(a.shouldForce, a.forceSocialRebuild, a.outputMissing)
    \/ \E f \in Files : ProcessPost(f)
    \/ \E f \in Files : StagePost(f)
    \/ \E f \in Files : AppendStaged(f)
    \/ \E f \in Files : DropPost(f)
    \/ \E t \in cardTasks : GenerateSocialCard(t)
    \/ \E t \in cardTasks : DropCard(t)
    \/ ProcessJoin
    \/ \E t \in renderTasks : RenderPage(t)
    \/ \E t \in renderTasks : DropRender(t)
    \/ ProcessReturn
    \/ ProcessEnd

Spec == Init /\ [][Next]_vars

NextChanged ==
    \/ Shutdown
    \/ \E path \in Paths, op \in Ops, o \in Outcomes : BuildChanged(path, op, o)

SpecChanged == InitChanged /\ [][NextChanged]_vars

NextWatch ==
    \/ Shutdown
    \/ \E h \in Handlers, path \in Paths, op \in Ops, o \in WatchOutcomes :
          Callback(h, path, op, o)
    \/ \E h \in Handlers : LockBuildMu(h)
    \/ \E h \in Handlers : HandlerCall(h)
    \/ \E h \in Handlers : UnlockBuildMu(h)

SpecWatch == InitWatch /\ [][NextWatch]_vars

NextFeed == ProcessJoin \/ ProcessReturn

SpecFeed == InitFeed /\ [][NextFeed]_vars

(* ------------------------------- claims -------------------------------- *)

\* The content tree has not changed since the current Process call began.
Undisturbed == edits = log.edits0

\* The parse task of f has passed the cache probe (line 233).
Probed(f) == task[f].out \in {"renderfail", "draft", "published", "panic"}

\* The call returned normally: not cancelled, tree undisturbed.
Returned == pc = "returned" /\ ~cancelled /\ Undisturbed

\* No cache entry the call started from lacks its body hash.
NoLegacy == \A f \in Files : log.cachePosts0[f] # Nil => log.cachePosts0[f].BodyHash # NoHash

AllOk(tree) == \A f \in Files : tree[f] # Nil => tree[f].kind = "ok"

\* The posts a clean build of `tree` publishes.
CleanFiles(tree) == {f \in Present(tree) : includeDrafts \/ ~Draft(tree[f].fm)}
CleanPosts(tree) == {PostMetadata(f, tree[f].fm) : f \in CleanFiles(tree)}
CleanSearch(tree) ==
    {[ID |-> 0, Title |-> Title(tree[f].fm), Link |-> f, Tags |-> Tags(tree[f].fm),
      Content |-> ExtractPlainText(tree[f].body), Version |-> VersionOf(f),
      DocLen |-> DocLen(tree[f].fm, tree[f].body)] : f \in CleanFiles(tree)}

\* The search records the workers wrote, with their IDs set to 0.
FilledRecords == {[indexedPosts[i] EXCEPT !.ID = 0] : i \in 0..indexedPostIdx}

\* C1 (as claimed): after an incremental build the pages on disk (HTML, site
\* tree, neighbours), the tag map and the search records equal those of a
\* clean build of the same source tree.
Cex_C1_IncrementalEquivalence ==
    (/\ Returned
     /\ builds >= 2
     /\ NoLegacy
     /\ AllOk(sourceFs)
     /\ AllOk(log.prevSource))
    => /\ \E sorted \in SortPosts(CleanPosts(sourceFs)) :
              \A f \in CleanFiles(sourceFs) :
                  /\ destPages[f] # Nil
                  /\ destPages[f].Data = BuiltPage(f, sourceFs[f], sorted, 0).Data
       /\ result.TagMap = BuildTagMap(CleanPosts(sourceFs))
       /\ FilledRecords = CleanSearch(sourceFs)

\* A clean build (empty cache, empty output) does produce those artifacts.
CleanBuildMatches ==
    (/\ Returned
     /\ AllOk(sourceFs)
     /\ \A f \in Files : log.cachePosts0[f] = Nil
     /\ builds = 1)
    => /\ (\A f \in CleanFiles(sourceFs) : destPages[f] # Nil /\ destPages[f].mtime = now)
          => \E sorted \in SortPosts(CleanPosts(sourceFs)) :
                \A f \in CleanFiles(sourceFs) :
                    destPages[f].Data = BuiltPage(f, sourceFs[f], sorted, 0).Data
       /\ result.TagMap = BuildTagMap(CleanPosts(sourceFs))
       /\ FilledRecords = CleanSearch(sourceFs)

\* The files whose source differs from what the previous call found.
ChangedFiles == {f \in Files : sourceFs[f] # log.prevSource[f]}

BodyOnlyEdit(f) ==
    /\ log.prevSource # Nil
    /\ ChangedFiles = {f}
    /\ sourceFs[f] # Nil
    /\ log.prevSource[f] # Nil
    /\ sourceFs[f].fm = log.prevSource[f].fm
    /\ sourceFs[f].body # log.prevSource[f].body
    /\ ~Draft(sourceFs[f].fm)

\* C2 (as claimed): when the body of exactly one post changed between two
\* builds, whatever its mtime, the second build schedules a render of that
\* post with the new HTML and of no other post.
Cex_C2_CacheSoundness ==
    (/\ Returned
     /\ args = NoArgs
     /\ NoLegacy
     /\ AllOk(sourceFs)
     /\ log.prevSource # Nil
     /\ AllOk(log.prevSource))
    => \A f \in Files :
          BodyOnlyEdit(f)
          => /\ renderQueue[IdxOf(f)] # Nil
             /\ renderQueue[IdxOf(f)].Data.Content = RenderHTML(sourceFs[f].body)
             /\ \A g \in Present(sourceFs) \ {f} : renderQueue[IdxOf(g)] = Nil

\* C3 (amended): the probe yields a hit iff a cached entry exists, the
\* source mtime in whole seconds is not greater than the cached ModTime, and
\* the cached body hash is empty or equals the current body hash.
Thm_C3_CacheProbe ==
    Undisturbed =>
        \A f \in Files :
            Probed(f) =>
                LET c == log.cachePosts0[f]
                IN  task[f].exists <=>
                        /\ c # Nil
                        /\ ~(Unix(sourceFs[f].mtime) > c.ModTime)
                        /\ c.BodyHash = NoHash \/ c.BodyHash = GetBodyHash(ReadFile(f).body)

\* C3 witness: a probed post whose mtime is newer than the cached ModTime
\* and whose body hash still matches; it is a miss.
Wit_C3_NewerMtimeSameBody ==
    /\ Undisturbed
    /\ \E f \in Files :
          /\ Probed(f)
          /\ log.cachePosts0[f] # Nil
          /\ Unix(sourceFs[f].mtime) > log.cachePosts0[f].ModTime
          /\ log.cachePosts0[f].BodyHash = GetBodyHash(ReadFile(f).body)
          /\ ~task[f].exists

\* C3 (as claimed): hit iff a cached entry exists and (mtime newer implies
\* the body hash matches).
Cex_C3_CacheProbe ==
    Undisturbed =>
        \A f \in Files :
            Probed(f) =>
                LET c == log.cachePosts0[f]
                IN  task[f].exists <=>
                        /\ c # Nil
                        /\ (Unix(sourceFs[f].mtime) > c.ModTime
                              => c.BodyHash = GetBodyHash(ReadFile(f).body))

\* C4 (as claimed): a cached body hash that differs from the current body
\* hash, the empty hash included, makes the post a miss.
Cex_C4_BodyHashMismatchIsMiss ==
    Undisturbed =>
        \A f \in Files :
            (/\ Probed(f)
             /\ log.cachePosts0[f] # Nil
             /\ log.cachePosts0[f].BodyHash # GetBodyHash(ReadFile(f).body))
            => ~task[f].useCache

\* C5 (as claimed): a post whose front-matter hash differs from the cached
\* one gets a card job, and the metadata map holds its new front-matter.
Cex_C5_FrontmatterCascade ==
    (Returned /\ NoLegacy /\ AllOk(sourceFs)) =>
        \A f \in CleanFiles(sourceFs) :
            (/\ log.cachePosts0[f] # Nil
             /\ log.cachePosts0[f].ContentHash # GetFrontmatterHash(sourceFs[f].fm))
            => /\ f \in log.cardSubmitted
               /\ allMetadataMap[LinkOf(f)] = PostMetadata(f, sourceFs[f].fm)

\* C6 (as claimed): under the force flag no post is a hit, and with warm
\* caches and unchanged sources every published post is scheduled to render.
Cex_C6_ForceRerenders ==
    (Returned /\ args.shouldForce /\ NoLegacy /\ AllOk(sourceFs)) =>
        \A f \in Files :
            Probed(f) =>
                /\ ~task[f].useCache
                /\ (/\ task[f].out = "published"
                    /\ log.cachePosts0[f] # Nil
                    /\ log.prevSource # Nil
                    /\ log.prevSource = sourceFs)
                   => renderQueue[IdxOf(f)] # Nil

\* C7 (as claimed): with drafts excluded, a draft post has no entry in the
\* metadata map, no render task, no search record and no card job.
Cex_C7_DraftGate ==
    (Returned /\ ~includeDrafts /\ NoLegacy /\ AllOk(sourceFs)) =>
        \A f \in Present(sourceFs) :
            Draft(sourceFs[f].fm)
            => /\ allMetadataMap[LinkOf(f)] = Nil
               /\ \A i \in 1..Len(postsByVersion[VersionOf(f)]) :
                     postsByVersion[VersionOf(f)][i].Link # LinkOf(f)
               /\ renderQueue[IdxOf(f)] = Nil
               /\ \A i \in 0..indexedPostIdx : indexedPosts[i].Link # f
               /\ f \notin log.cardSubmitted

\* C8 (as claimed): the IDs of the returned IndexedPosts are pairwise
\* distinct and are exactly 0..N-1, N the number of records.
Cex_C8_DenseIDs ==
    Returned =>
        LET recs == result.IndexedPosts
            n == Cardinality(DOMAIN recs)
        IN  /\ \A i, j \in DOMAIN recs : i # j => recs[i].ID # recs[j].ID
            /\ {recs[i].ID : i \in DOMAIN recs} = 0..(n - 1)

\* C9 (as claimed): a cancelled Process call returns without BatchCommit
\* and leaves the cache as it was.
Cex_C9_NoCommitAfterCancel ==
    (pc = "returned" /\ cancelled) =>
        /\ ~log.batchCommit
        /\ cachePosts = log.cachePosts0

\* C10 (as claimed): a post whose source cannot be read, stat-ed, parsed or
\* rendered is skipped, and no worker crashes.
Cex_C10_FailedPostSkipped ==
    /\ pc # "panic"
    /\ (pc = "returned" /\ ~cancelled) =>
          \A f \in Files :
              (/\ task[f].st = "done"
               /\ \/ sourceFs[f] = Nil
                  \/ sourceFs[f].kind \in {"unreadable", "renderfail"}
               /\ log.cachePosts0[f] = Nil)
              => /\ task[f].out # "published"
                 /\ allMetadataMap[LinkOf(f)] = Nil
                 /\ renderQueue[IdxOf(f)] = Nil
                 /\ \A i \in 0..indexedPostIdx : indexedPosts[i].Link # f
                 /\ staging.newSearchRecords[f] = Nil

\* C11 (as claimed): a file larger than MaxFileSize yields no render task,
\* no search record, no metadata-map entry and no staged cache entry, also
\* when an older cache entry for its path exists.
Cex_C11_OversizeSkipped ==
    (Returned /\ NoLegacy) =>
        \A f \in Present(sourceFs) :
            sourceFs[f].kind = "oversize"
            => /\ task[f].out = "oversize"
               /\ renderQueue[IdxOf(f)] = Nil
               /\ \A i \in 0..indexedPostIdx : indexedPosts[i].Link # f
               /\ staging.newSearchRecords[f] = Nil
               /\ \A i \in 1..Len(staging.newPostsMeta) : staging.newPostsMeta[i].Path # f
               /\ allMetadataMap[LinkOf(f)] = Nil

\* The files the current call walked.
Walked == {files[i] : i \in 1..Len(files)}

InCall == pc \in {"parse", "render", "returned"}

NeighbourLinks(page) ==
    {n.Link : n \in {page.Data.PrevPage, page.Data.NextPage} \ {Nil}}

\* The posts removed from the content tree since the previous build.
Deleted == {a \in Files : log.prevSource[a] # Nil /\ sourceFs[a] = Nil}

\* C13 (as claimed): after the build that follows the deletion of post a,
\* a has no cache entry and no render task, and no page of a remaining post
\* still links to a as its neighbour.
Cex_C13_DeletedNeighbour ==
    (/\ Returned
     /\ args = NoArgs
     /\ NoLegacy
     /\ log.prevSource # Nil
     /\ AllOk(sourceFs)
     /\ AllOk(log.prevSource))
    => \A a \in Deleted :
          /\ cachePosts[a] = Nil
          /\ cacheSearch[a] = Nil
          /\ a \notin Walked
          /\ \A b \in CleanFiles(sourceFs) :
                destPages[b] # Nil => LinkOf(a) \notin NeighbourLinks(destPages[b])

\* BuildChanged classified an event: the context was not done at its entry.
Classified == event # Nil /\ ~event.done

Called(fn) == \E i \in 1..Len(calls) : calls[i].fn = fn

\* A create/modify event on a content .md file whose source could be read.
ModifyEvent ==
    /\ Classified
    /\ IsContentMarkdown(event.path)
    /\ event.op \in {{"Create"}, {"Write"}}
    /\ event.source # Nil
    /\ event.source.kind = "ok"

FrontmatterSame == event.cached.ContentHash = GetFrontmatterHash(event.source.fm)
BodySame == event.cached.BodyHash = GetBodyHash(event.source.body)

\* C14 (as claimed): no cache entry or a changed front-matter hash gives a
\* full rebuild; an equal front-matter hash with a changed body hash gives a
\* single-post rebuild of that file and no full rebuild; equal hashes give
\* no build, no single-post processing and no cache save.
Cex_C14_Classifier ==
    ModifyEvent =>
        /\ event.cached = Nil => Called("Build")
        /\ (event.cached # Nil /\ ~FrontmatterSame) => Called("Build")
        /\ (event.cached # Nil /\ FrontmatterSame /\ ~BodySame)
           => /\ calls[1] = Call("ProcessSingle", event.path.f)
              /\ ~Called("Build")
        /\ (event.cached # Nil /\ FrontmatterSame /\ BodySame)
           => ~Called("Build") /\ ~Called("ProcessSingle") /\ ~Called("SaveCaches")

\* C14 (amended): as claimed, except that the single-post rebuild falls
\* back to a full rebuild exactly when ProcessSingle returns an error.
Thm_C14_Classifier ==
    ModifyEvent =>
        /\ event.cached = Nil
           => calls[1] = Call("Build", 0) /\ ~Called("ProcessSingle")
        /\ (event.cached # Nil /\ ~FrontmatterSame)
           => calls[1] = Call("Build", 0) /\ ~Called("ProcessSingle")
        /\ (event.cached # Nil /\ FrontmatterSame /\ ~BodySame)
           => /\ calls[1] = Call("ProcessSingle", event.path.f)
              /\ Called("Build") <=> event.o.singleErr
        /\ (event.cached # Nil /\ FrontmatterSame /\ BodySame)
           => ~Called("Build") /\ ~Called("ProcessSingle") /\ ~Called("SaveCaches")

\* C14 witness: a body-only change whose ProcessSingle failed and was
\* followed by a full rebuild.
Wit_C14_SingleFallsBack ==
    /\ ModifyEvent
    /\ event.cached # Nil
    /\ FrontmatterSame
    /\ ~BodySame
    /\ event.o.singleErr
    /\ calls[1] = Call("ProcessSingle", event.path.f)
    /\ calls[2] = Call("Build", 0)

TemplateEvent ==
    /\ Classified
    /\ event.path.dir = "templates"
    /\ event.path.ext = ".html"

\* C16 (as claimed): a change of the base layout runs a full rebuild; a
\* change of another template runs no full rebuild.
Cex_C16_TemplateChange ==
    TemplateEvent =>
        IF invalidateForTemplate(event.path).all
        THEN Called("Build")
        ELSE ~Called("Build")

\* C17: every event that is not a content .md event runs a full rebuild.
Thm_C17_DefaultFullRebuild ==
    (Classified /\ ~IsContentMarkdown(event.path))
    => /\ Len(calls) >= 1
       /\ calls[1] = Call("Build", 0)

\* C17 witness: a CSS change inside a static root ran a full rebuild.
Wit_C17_AssetRebuilds ==
    /\ Classified
    /\ IsAssetChange(event.path)
    /\ calls = <<Call("Build", 0), Call("SaveCaches", 0)>>

\* What the parse task of f computes when it runs alone on the state the
\* call started from (lines 178-513).
Alone(f) ==
    LET cachedMeta == log.cachePosts0[f]
        info == Stat(f)
        source == ReadFile(f)
        bodyHash == GetBodyHash(source.body)
        exists == CacheProbe(cachedMeta, info, bodyHash)
        useCache0 == exists /\ ~args.shouldForce
        cachedHash == IF ~useCache0 THEN log.socialHash0[f] ELSE cachedMeta.ContentHash
        useCache == useCache0 /\ LoadsSucceed(f, cachedMeta)
        p == IF useCache
             THEN [HitPath(f, cachedMeta) EXCEPT
                     !.post = Warmup(log.cachePosts0)[cachedMeta.Link]]
             ELSE MissPath(f, source)
        cardExists == /\ log.destCards0[f] # Nil
                      /\ info # Nil
                      /\ log.destCards0[f].mtime > info.ModTime
        wr == WillRender(args.outputMissing, useCache, log.destPages0[f], info)
    IN  [useCache |-> useCache, p |-> p, info |-> info, bodyHash |-> bodyHash,
         wr |-> wr,
         submit |-> SubmitCard(args.forceSocialRebuild, cachedHash, p.frontmatterHash,
                               cardExists),
         out |-> IF info # Nil /\ info.Oversize THEN "oversize"
                 ELSE IF ~useCache /\ sourceFs[f] # Nil /\ sourceFs[f].kind = "renderfail"
                 THEN "renderfail"
                 ELSE IF p.post.Draft /\ ~includeDrafts THEN "draft"
                 ELSE IF wr = "panic" THEN "panic"
                 ELSE "published"]

PublishedAlone == {f \in Walked : Alone(f).out = "published"}

\* The metadata map after the warmup and the stores of the published posts.
MapAlone ==
    [l \in Links |->
        IF \E f \in PublishedAlone : LinkOf(f) = l
        THEN Alone(CHOOSE f \in PublishedAlone : LinkOf(f) = l).p.post
        ELSE Warmup(log.cachePosts0)[l]]

\* The parse pool and the card pool have finished, no cancellation, no
\* change of the content tree during the call.
Joined == pc = "render" /\ ~cancelled /\ Undisturbed

Cex_C19_RenderDecision ==
    (Returned /\ AllOk(sourceFs)) =>
        \A f \in Walked :
            task[f].out = "published" =>
                LET dest == log.destPages0[f]
                    wanted == \/ args.outputMissing
                              \/ ~task[f].useCache
                              \/ dest = Nil
                              \/ ~(dest.mtime > sourceFs[f].mtime)
                IN  /\ renderQueue[IdxOf(f)] # Nil <=> wanted
                    /\ ~wanted => destPages[f] = dest

\* The card file of f counted as present at the start of the call: in the
\* output tree and newer than the source.
CardFresh(f) ==
    /\ log.destCards0[f] # Nil
    /\ log.destCards0[f].mtime > sourceFs[f].mtime

\* C20 (as claimed): a published post, hit or miss, gets a card job iff
\* forceSocialRebuild is set, or the hash recorded for its path in the
\* social-card namespace differs from its front-matter hash, or its card is
\* absent or not newer than the source.
Cex_C20_CardDecision ==
    (Joined /\ AllOk(sourceFs)) =>
        \A f \in Walked :
            task[f].out = "published" =>
                (f \in log.cardSubmitted
                 <=> \/ args.forceSocialRebuild
                     \/ log.socialHash0[f] # GetFrontmatterHash(sourceFs[f].fm)
                     \/ ~CardFresh(f))

\* The probe of f's task said hit, shouldForce was not set, and a load of
\* lines 254-262 failed: the hit was demoted, and the post was published.
Demoted(f) ==
    /\ task[f].out = "published"
    /\ task[f].exists
    /\ ~args.shouldForce
    /\ ~task[f].useCache

\* The card decision of a miss (lines 236 and 427): the compared hash is the
\* one of the social-card namespace.
MissSubmit(f) ==
    SubmitCard(args.forceSocialRebuild, log.socialHash0[f],
               GetFrontmatterHash(ReadFile(f).fm), CardFresh(f))

\* The render slot of a miss (lines 461-468 and 488-505).
MissSlot(f) ==
    IF WillRender(args.outputMissing, FALSE, log.destPages0[f], Stat(f)) = "yes"
    THEN [DestPath |-> f, Version |-> VersionOf(f),
          Data |-> PageData(MissPath(f, ReadFile(f)).post,
                            MissPath(f, ReadFile(f)).htmlContent,
                            MissPath(f, ReadFile(f)).metaData)]
    ELSE Nil

\* The records a miss stages (lines 522-547).
MissStaged(f) ==
    /\ \E i \in 1..Len(staging.newPostsMeta) :
          staging.newPostsMeta[i] =
             NewPostMeta(f, Unix(Stat(f).ModTime), GetFrontmatterHash(ReadFile(f).fm),
                         GetBodyHash(ReadFile(f).body), MissPath(f, ReadFile(f)).post,
                         MissPath(f, ReadFile(f)).metaData,
                         MissPath(f, ReadFile(f)).htmlContent)
    /\ staging.newSearchRecords[f] =
          NewSearchRecord(MissPath(f, ReadFile(f)).post, MissPath(f, ReadFile(f)).plainText,
                          MissPath(f, ReadFile(f)).searchRecord.DocLen)
    /\ staging.newDeps[f] = [Tags |-> MissPath(f, ReadFile(f)).post.Tags]

\* C21 (as claimed): a hit demoted by a failed load is processed as a miss:
\* its metadata, search record and render slot are those of a re-parse, its
\* card job is submitted exactly when a miss would submit it, and fresh
\* cache records are staged.
Cex_C21_DemotedIsMiss ==
    Joined =>
        \A f \in Walked :
            Demoted(f) =>
                /\ allMetadataMap[LinkOf(f)] = MissPath(f, ReadFile(f)).post
                /\ \E i \in 0..indexedPostIdx :
                      [indexedPosts[i] EXCEPT !.ID = 0] = MissPath(f, ReadFile(f)).searchRecord
                /\ renderQueue[IdxOf(f)] = MissSlot(f)
                /\ MissStaged(f)
                /\ f \in log.cardSubmitted <=> MissSubmit(f)

\* The global artifacts of the current call have been computed.
Grouped == pc \in {"render", "returned"}

\* C22: when the grouping has run, every parse task has finished, and every
\* post a worker published is in the metadata map under its link and in the
\* sorted list of its version, from which the site tree and the neighbours
\* of every render task are computed.
Thm_C22_GroupingAfterJoin ==
    Grouped =>
        /\ \A f \in Walked : task[f].st = "done"
        /\ \A f \in Walked :
              task[f].out = "published" =>
                  /\ allMetadataMap[LinkOf(f)] # Nil
                  /\ \E i \in 1..Len(postsByVersion[VersionOf(f)]) :
                        postsByVersion[VersionOf(f)][i] = allMetadataMap[LinkOf(f)]
        /\ \A v \in Versions :
              {postsByVersion[v][i] : i \in 1..Len(postsByVersion[v])}
                 = {q \in RangeMetadata(allMetadataMap) : q.Version = v}

\* C22 witness: two workers published, and both posts are in the sorted list
\* the render tasks take their neighbours from.
Wit_C22_BothGrouped ==
    /\ pc = "render"
    /\ \A f \in Files : task[f].out = "published"
    /\ Len(postsByVersion[NoVersion]) = 2
    /\ renderTasks # {}

\* The workers inside the critical section of lines 542-546.
Holders == {f \in Files : task[f].st = "locked"}

\* The files the staging area holds records for.
StagedFiles ==
    {staging.newPostsMeta[i].Path : i \in 1..Len(staging.newPostsMeta)}
    \cup {f \in Files : staging.newSearchRecords[f] # Nil}
    \cup {f \in Files : staging.newDeps[f] # Nil}

\* C23: at most one worker is between Lock and Unlock of batchMu; a worker
\* is there, and the staging area holds records, only for posts processed
\* as a miss; and when BatchCommit has read the staging area no parse
\* worker is running and no render task is left.
Thm_C23_StagingExclusive ==
    /\ Cardinality(Holders) <= 1
    /\ \A f \in Holders : ~task[f].useCache /\ task[f].out = "published"
    /\ \A f \in StagedFiles :
          task[f].st = "done" /\ ~task[f].useCache /\ task[f].out = "published"
    /\ Holders # {} => pc \in {"parse", "panic"}
    /\ log.batchCommit =>
          /\ pc = "returned"
          /\ \A f \in Files : task[f].st \in {"none", "done"}
          /\ renderTasks = {}

\* C23 witness: one worker holds batchMu while the worker of another miss
\* waits for it.
Wit_C23_WorkerWaits ==
    /\ pc = "parse"
    /\ task[2].st = "locked"
    /\ task[1].st = "published"
    /\ ~task[1].useCache
    /\ ~cancelled

ListSet(l) == {l[i] : i \in 1..Len(l)}

\* The main feed as the claim gives it: the unversioned posts when no
\* version is configured, else the posts of the versions marked isLatest.
ClaimedFeed ==
    IF cfgVersions = {}
    THEN {q \in RangeMetadata(allMetadataMap) : q.Version = NoVersion}
    ELSE {q \in RangeMetadata(allMetadataMap) :
             \E v \in cfgVersions : v.IsLatest /\ q.Version = v.Name}

\* C25 (as claimed): AllPosts and PinnedPosts together are exactly the
\* claimed feed, they are disjoint, and they split it by the pinned flag.
\* Sites that configure versions and mark none as latest are left aside.
Cex_C25_MainFeed ==
    (result # Nil /\ (cfgVersions = {} \/ \E v \in cfgVersions : v.IsLatest)) =>
        /\ ListSet(result.AllPosts) \cup ListSet(result.PinnedPosts) = ClaimedFeed
        /\ ListSet(result.AllPosts) \cap ListSet(result.PinnedPosts) = {}
        /\ \A q \in ListSet(result.AllPosts) : ~q.Pinned
        /\ \A q \in ListSet(result.PinnedPosts) : q.Pinned

\* The callbacks inside the critical section of BuildChanged.
Inside == {h \in Handlers : handlers[h].st = "inside"}

\* C26: at most one BuildChanged invocation is between Lock and Unlock of
\* buildMu; the calls of the handlers (cache deletion, Build, ProcessSingle,
\* SaveCaches, SyncVFS) are made only from inside it, and the calls of one
\* invocation are never interleaved with those of another.
Thm_C26_CallbacksSerialized ==
    /\ Cardinality(Inside) <= 1
    /\ \A i \in 1..Len(calls) : handlers[calls[i].h].st \in {"inside", "returned"}
    /\ \A i, j, k \in 1..Len(calls) :
          (i < j /\ j < k /\ calls[i].h = calls[k].h) => calls[j].h = calls[i].h
    /\ \A h \in Inside, i \in 1..Len(calls) :
          calls[i].h # h => handlers[calls[i].h].st = "returned"

\* C26 witness: two events arrived together; the callback of goroutine 2
\* ran its deletion, build and save while goroutine 1 waited, and goroutine
\* 1 is now inside with its own calls under way.
Wit_C26_SecondWaited ==
    /\ Len(calls) = 4
    /\ calls[1] = [fn |-> "deletePostFromCache", f |-> 2, h |-> 2]
    /\ calls[3].h = 2
    /\ calls[4] = [fn |-> "ProcessSingle", f |-> 1, h |-> 1]
    /\ handlers[2].st = "returned"
    /\ handlers[1].st = "inside"

\* The number of posts the workers of the current call have published.
NumPublished == Cardinality({f \in Walked : task[f].out = "published"})

\* C27: during a call the counter stays below len(files) and the slices
\* keep their allocated length; a filled renderQueue slot holds the task of
\* the file submitted with that index; and when the workers have finished,
\* the slots 0..M-1 of indexedPosts hold the M published records, slot i
\* with ID i, and the slots from M on are untouched.
Thm_C27_SlotsInBounds ==
    InCall =>
        /\ indexedPostIdx <= Len(files) - 1
        /\ indexedPostIdx >= -1
        /\ DOMAIN indexedPosts = 0..(Len(files) - 1)
        /\ DOMAIN renderQueue = 0..(Len(files) - 1)
        /\ \A i \in DOMAIN renderQueue :
              renderQueue[i] # Nil =>
                  /\ renderQueue[i].DestPath = files[i + 1]
                  /\ task[files[i + 1]].out = "published"
        /\ Grouped =>
              /\ indexedPostIdx + 1 = NumPublished
              /\ \A i \in 0..(NumPublished - 1) :
                    /\ indexedPosts[i].ID = i
                    /\ indexedPosts[i].Link # NoLink
                    /\ task[indexedPosts[i].Link].out = "published"
              /\ \A i, j \in 0..(NumPublished - 1) :
                    i # j => indexedPosts[i].Link # indexedPosts[j].Link
              /\ \A i \in NumPublished..(Len(files) - 1) : indexedPosts[i] = ZeroIndexedPost

\* C27 witness: of two walked files one was published and one was skipped
\* as a draft; slot 0 holds the published record and slot 1 is untouched,
\* while the render slot written is the one of the published file's index.
Wit_C27_PrefixFilled ==
    /\ Grouped
    /\ Len(files) = 2
    /\ task[1].out = "draft"
    /\ task[2].out = "published"
    /\ indexedPosts[0].Link = 2
    /\ indexedPosts[1] = ZeroIndexedPost
    /\ renderQueue[0] = Nil
    /\ renderQueue[1] # Nil

\* The rebuild BuildChanged started for the event succeeded: its Build
\* returned no error, or its ProcessSingle did and no Build was needed.
RebuildSucceeded ==
    \/ Called("Build") /\ ~event.o.buildErr
    \/ Called("ProcessSingle") /\ ~Called("Build") /\ ~event.o.singleErr

\* Position of the first call of fn among the calls of the event.
FirstCall(fn) == CHOOSE i \in 1..Len(calls) : calls[i].fn = fn /\ \A j \in 1..(i - 1) : calls[j].fn # fn

\* C28 (as claimed): SaveCaches is called exactly when the rebuild the
\* event started has succeeded, the build after a source read error
\* included, and then after the Build or ProcessSingle call.
Cex_C28_SaveCaches ==
    Classified =>
        /\ Called("SaveCaches") <=> RebuildSucceeded
        /\ Called("SaveCaches") =>
              /\ Called("Build") => FirstCall("Build") < FirstCall("SaveCaches")
              /\ Called("ProcessSingle") => FirstCall("ProcessSingle") < FirstCall("SaveCaches")

====
